---- MODULE Spec2Model ----
(***************************************************************************)
(* A model of the RQL front end: the lexer (src/src/lexer.rs), the token   *)
(* table (src/src/token.rs), the recursive-descent parser                  *)
(* (src/src/parser.rs) and the comparison primitives of Value              *)
(* (src/src/ast.rs).                                                       *)
(*                                                                         *)
(* A character is a one-element name: "a", "(", ... ; NUL is U+0000,       *)
(* "U+00E9" is a two-byte alphabetic character.  A string is a sequence of *)
(* characters; byte offsets are computed from len_utf8, as the lexer does. *)
(***************************************************************************)
EXTENDS Integers, Sequences, FiniteSets, TLC

VARIABLES
    lexer,      \* SpecLexer: the Lexer under test
    tok,        \* SpecLexer: the token returned by the last Lexer::next_token
    lexcalls,   \* SpecLexer: number of next_token calls made
    origin,     \* SpecFilter / SpecTree: how the input text was built
    parser,     \* SpecFilter / SpecTree: the Parser (lexer, errors, cur_token, peek_token)
    result,     \* SpecFilter / SpecTree: what the last parse_query returned
    calls,      \* SpecFilter / SpecTree: number of parse_query calls made
    value,      \* SpecValue: the Value literal
    scalar,     \* SpecValue: the external scalar
    outcome,    \* SpecValue: the last comparison made and its result
    sub         \* SpecSub: the parse function called and the tokens skipped before it

vars == <<lexer, tok, lexcalls, origin, parser, result, calls, value, scalar, outcome, sub>>

(***************************************************************************)
(* Characters                                                              *)
(***************************************************************************)
NUL == "NUL"
QUOTE == "\""
EACUTE == "U+00E9"

AsciiLower == {"a","b","c","d","e","f","g","h","i","j","k","l","m",
               "n","o","p","q","r","s","t","u","v","w","x","y","z"}
AsciiUpper == {"A","B","C","D","E","F","G","H","I","J","K","L","M",
               "N","O","P","Q","R","S","T","U","V","W","X","Y","Z"}
Digits == {"0","1","2","3","4","5","6","7","8","9"}

is_alphabetic(ch) == ch \in AsciiLower \cup AsciiUpper \cup {EACUTE}

len_utf8(ch) == IF ch = EACUTE THEN 2 ELSE 1

is_letter(ch) == ch = "_" \/ ch = "." \/ ch = "$" \/ is_alphabetic(ch)

is_digit(ch) == ch \in Digits

is_whitespace(ch) == ch = " " \/ ch = "\t" \/ ch = "\n" \/ ch = "\r"

(***************************************************************************)
(* Tokens                                                                  *)
(***************************************************************************)
Token(type) == [type |-> type, literal |-> <<>>]
TokenLit(type, text) == [type |-> type, literal |-> text]

Illegal == Token("Illegal")
Eof == Token("Eof")
Comma == Token("Comma")
Lparen == Token("Lparen")
Rparen == Token("Rparen")

\* What a call that panicked hands back: no token at all.
NoToken == Token("-")

keyword_to_token(keyword) ==
    CASE keyword = <<"t","r","u","e">> -> "True"
      [] keyword = <<"f","a","l","s","e">> -> "False"
      [] keyword = <<"e","q">> -> "Eq"
      [] keyword = <<"n","e">> -> "NotEq"
      [] keyword = <<"l","e">> -> "Le"
      [] keyword = <<"g","e">> -> "Ge"
      [] keyword = <<"l","t">> -> "Lt"
      [] keyword = <<"g","t">> -> "Gt"
      [] keyword = <<"a","n","d">> -> "And"
      [] keyword = <<"o","r">> -> "Or"
      [] keyword = <<"s","o","r","t">> -> "Sort"
      [] keyword = <<"s","e","l","e","c","t">> -> "Select"
      [] keyword = <<"v","a","l","u","e","s">> -> "Values"
      [] keyword = <<"a","g","g","r","e","g","a","t","e">> -> "Aggregate"
      [] keyword = <<"d","i","s","t","i","n","c","t">> -> "Distinct"
      [] keyword = <<"i","n">> -> "In"
      [] keyword = <<"o","u","t">> -> "Out"
      [] keyword = <<"c","o","n","t","a","i","n","s">> -> "Contains"
      [] keyword = <<"e","x","c","l","u","d","e","s">> -> "Excludes"
      [] keyword = <<"l","i","m","i","t">> -> "Limit"
      [] OTHER -> "None"

lookup_ident(ident) ==
    IF keyword_to_token(ident) # "None"
    THEN Token(keyword_to_token(ident))
    ELSE TokenLit("Ident", ident)

(***************************************************************************)
(* Lexer.  `chars` is the iterator over the input: the index of the next   *)
(* character it yields.  `position` is a byte offset.                      *)
(***************************************************************************)
RECURSIVE CharAt(_, _, _, _)
\* the index of the character of s that starts at byte offset b, scanning from
\* the i-th character, which starts at offset off; Len(s) + 1 for the end of s,
\* 0 when b is not a character boundary
CharAt(s, b, i, off) ==
    IF off = b THEN i
    ELSE IF off > b \/ i > Len(s) THEN 0
         ELSE CharAt(s, b, i + 1, off + len_utf8(s[i]))

\* &input[from..to]: panics unless from <= to and both are character boundaries
Slice(s, from, to) ==
    IF from <= to /\ CharAt(s, from, 1, 0) # 0 /\ CharAt(s, to, 1, 0) # 0
    THEN [panic |-> FALSE,
          text |-> SubSeq(s, CharAt(s, from, 1, 0), CharAt(s, to, 1, 0) - 1)]
    ELSE [panic |-> TRUE, text |-> <<>>]

read_char(l) ==
    [l EXCEPT !.position = @ + (IF l.ch = NUL THEN 0 ELSE len_utf8(l.ch)),
              !.ch = IF l.chars <= Len(l.input) THEN l.input[l.chars] ELSE NUL,
              !.chars = IF l.chars <= Len(l.input) THEN @ + 1 ELSE @]

peek_char(l) == IF l.chars <= Len(l.input) THEN l.input[l.chars] ELSE NUL

LexerNew(input) ==
    read_char([input |-> input, position |-> 0, ch |-> NUL, chars |-> 1])

RECURSIVE skip_whitespace(_)
skip_whitespace(l) == IF is_whitespace(l.ch) THEN skip_whitespace(read_char(l)) ELSE l

RECURSIVE IdentifierLoop(_)
IdentifierLoop(l) ==
    IF is_letter(l.ch) \/ is_digit(l.ch) THEN IdentifierLoop(read_char(l)) ELSE l

\* the lexer after the run, and the slice taken
read_identifier(l) ==
    LET l1 == IF is_letter(l.ch) THEN read_char(l) ELSE l
        l2 == IdentifierLoop(l1)
    IN [lexer |-> l2, slice |-> Slice(l.input, l.position, l2.position)]

RECURSIVE NumberLoop(_)
NumberLoop(l) == IF is_digit(l.ch) THEN NumberLoop(read_char(l)) ELSE l

read_number(l) ==
    LET l1 == NumberLoop(l)
    IN [lexer |-> l1, slice |-> Slice(l.input, l.position, l1.position)]

RECURSIVE StringLoop(_)
StringLoop(l) ==
    LET l1 == read_char(l)
    IN IF l1.ch = QUOTE \/ l1.ch = NUL THEN l1 ELSE StringLoop(l1)

read_string(l) ==
    LET l1 == StringLoop(l)
    IN [lexer |-> l1, slice |-> Slice(l.input, l.position + 1, l1.position)]

\* One call of Lexer::next_token: the token, the lexer afterwards, and whether
\* the call panicked (a slice off a character boundary).
Lexed(t, l) == [tok |-> t, lexer |-> l, panic |-> FALSE]
LexPanic(l) == [tok |-> NoToken, lexer |-> l, panic |-> TRUE]

NumberToken(l) ==
    LET ip == read_number(l)
        l1 == ip.lexer
    IN IF ip.slice.panic THEN LexPanic(l1)
       ELSE IF l1.ch = "." /\ is_digit(peek_char(l1))
            THEN LET fp == read_number(read_char(l1))
                 IN IF fp.slice.panic THEN LexPanic(fp.lexer)
                    ELSE Lexed(TokenLit("Float", ip.slice.text \o <<".">> \o fp.slice.text),
                               fp.lexer)
            ELSE Lexed(TokenLit("Int", ip.slice.text), l1)

next_token(l0) ==
    LET l == skip_whitespace(l0)
    IN CASE l.ch = "(" -> Lexed(Lparen, read_char(l))
         [] l.ch = ")" -> Lexed(Rparen, read_char(l))
         [] l.ch = "," -> Lexed(Comma, read_char(l))
         [] l.ch = "+" -> Lexed(Token("Plus"), read_char(l))
         [] l.ch = "-" -> Lexed(Token("Minus"), read_char(l))
         [] l.ch = QUOTE ->
                LET rs == read_string(l)
                IN IF rs.slice.panic THEN LexPanic(rs.lexer)
                   ELSE Lexed(TokenLit("Str", rs.slice.text), read_char(rs.lexer))
         [] l.ch = NUL -> Lexed(Eof, read_char(l))
         [] OTHER ->
                IF is_letter(l.ch)
                THEN LET ri == read_identifier(l)
                     IN IF ri.slice.panic THEN LexPanic(ri.lexer)
                        ELSE Lexed(lookup_ident(ri.slice.text), ri.lexer)
                ELSE IF is_digit(l.ch)
                     THEN NumberToken(l)
                     ELSE Lexed(Illegal, read_char(l))

(***************************************************************************)
(* AST.  A Value and a Query are tagged tuples.  Where a number is parsed  *)
(* from text, an i64 is written as its canonical decimal numeral (the      *)
(* model checker's own integers are narrower than 64 bits) and an f64 as   *)
(* <<sign, integer digits, fraction digits>> without redundant zeros.      *)
(***************************************************************************)
Identifier(s) == <<"Identifier", s>>
IntegerLiteral(i) == <<"IntegerLiteral", i>>
FloatLiteral(f) == <<"FloatLiteral", f>>
StringLiteral(s) == <<"StringLiteral", s>>
Boolean(b) == <<"Boolean", b>>

QueryAnd(queries) == <<"And", queries>>
QueryOr(queries) == <<"Or", queries>>
QueryFilter(infix, left, right) == <<"Filter", infix, left, right>>

(***************************************************************************)
(* str::parse::<i64>() and str::parse::<f64>() on the text of a token      *)
(***************************************************************************)
AllDigits(text) == \A i \in 1..Len(text) : is_digit(text[i])

DigitValue(d) ==
    CASE d = "0" -> 0 [] d = "1" -> 1 [] d = "2" -> 2 [] d = "3" -> 3 [] d = "4" -> 4
      [] d = "5" -> 5 [] d = "6" -> 6 [] d = "7" -> 7 [] d = "8" -> 8 [] d = "9" -> 9

RECURSIVE StripLeadingZeros(_)
StripLeadingZeros(ds) ==
    IF Len(ds) > 1 /\ ds[1] = "0" THEN StripLeadingZeros(Tail(ds)) ELSE ds

RECURSIVE StripTrailingZeros(_)
StripTrailingZeros(ds) ==
    IF Len(ds) > 0 /\ ds[Len(ds)] = "0"
    THEN StripTrailingZeros(SubSeq(ds, 1, Len(ds) - 1))
    ELSE ds

RECURSIVE DigitsLe(_, _)
\* a <= b for two digit strings of the same length
DigitsLe(a, b) ==
    IF a = <<>> THEN TRUE
    ELSE IF DigitValue(a[1]) # DigitValue(b[1]) THEN DigitValue(a[1]) < DigitValue(b[1])
         ELSE DigitsLe(Tail(a), Tail(b))

\* a <= b for two numerals without leading zeros
NumeralLe(a, b) == Len(a) < Len(b) \/ (Len(a) = Len(b) /\ DigitsLe(a, b))

\* i64::MAX = 2^63 - 1 and the magnitude of i64::MIN = 2^63
I64Max == <<"9","2","2","3","3","7","2","0","3","6","8","5","4","7","7","5","8","0","7">>
I64MinMagnitude == <<"9","2","2","3","3","7","2","0","3","6","8","5","4","7","7","5","8","0","8">>

\* [ok, value]: an optional sign, then one or more digits, within the range of i64
parse_i64(text) ==
    LET signed == Len(text) > 0 /\ text[1] \in {"+", "-"}
        neg == Len(text) > 0 /\ text[1] = "-"
        ds == IF signed THEN Tail(text) ELSE text
        mag == StripLeadingZeros(ds)
    IN IF ds = <<>> \/ ~AllDigits(ds) THEN [ok |-> FALSE, value |-> <<>>]
       ELSE IF neg
            THEN [ok |-> NumeralLe(mag, I64MinMagnitude),
                  value |-> IF mag = <<"0">> THEN mag ELSE <<"-">> \o mag]
            ELSE [ok |-> NumeralLe(mag, I64Max), value |-> mag]

\* [ok, value]: an optional sign, then digits with at most one '.', at least one
\* digit in all.  (Exponents, "inf" and "nan" need letters; the texts that reach
\* this conversion are digit runs joined by a '.'.)  Overflow is no error.
parse_f64(text) ==
    LET signed == Len(text) > 0 /\ text[1] \in {"+", "-"}
        neg == Len(text) > 0 /\ text[1] = "-"
        body == IF signed THEN Tail(text) ELSE text
        dots == {i \in 1..Len(body) : body[i] = "."}
        dot == IF dots = {} THEN Len(body) + 1 ELSE CHOOSE i \in dots : TRUE
        ip == SubSeq(body, 1, dot - 1)
        fp == SubSeq(body, dot + 1, Len(body))
        int == IF ip = <<>> THEN <<"0">> ELSE StripLeadingZeros(ip)
        frac == StripTrailingZeros(fp)
        zero == int = <<"0">> /\ frac = <<>>
    IN IF Cardinality(dots) > 1 \/ ~AllDigits(ip) \/ ~AllDigits(fp)
          \/ (ip = <<>> /\ fp = <<>>)
       THEN [ok |-> FALSE, value |-> <<>>]
       ELSE [ok |-> TRUE, value |-> <<IF neg /\ ~zero THEN "-" ELSE "+", int, frac>>]

(***************************************************************************)
(* Parser.  The record holds the fields of the struct, and `panicked`:     *)
(* whether a call on it has panicked (the lexer's slice), which unwinds    *)
(* through every caller.                                                   *)
(***************************************************************************)
ParserError(variant, token) == [variant |-> variant, token |-> token, text |-> <<>>]
ParserErrorText(variant, text) == [variant |-> variant, token |-> NoToken, text |-> text]
NoError == ParserError("-", NoToken)

\* Result<T>: kind is "ok", "err" or "panic"; m is the parser afterwards
Ok(m, x) == [kind |-> "ok", m |-> m, x |-> x, e |-> NoError]
Err(m, e) == [kind |-> "err", m |-> m, x |-> <<>>, e |-> e]
Panic(m) == [kind |-> "panic", m |-> m, x |-> <<>>, e |-> NoError]

\* `let x = v;` then the rest F(x): v is evaluated once
Bind(v, F(_)) == CHOOSE y \in {F(x) : x \in {v}} : TRUE

\* the `?` operator (and an unwinding panic): anything but Ok returns at once
Try(r, F(_)) == Bind(r, LAMBDA x : IF x.kind # "ok" THEN x ELSE F(x))

P_next_token(m) ==
    Bind(next_token(m.lexer), LAMBDA r :
        IF r.panic
        THEN [m EXCEPT !.lexer = r.lexer, !.panicked = TRUE]
        ELSE [m EXCEPT !.cur_token = m.peek_token, !.peek_token = r.tok,
                       !.lexer = r.lexer])

\* next_token as a step of a parse function
Advance(m) ==
    Bind(P_next_token(m), LAMBDA m1 : IF m1.panicked THEN Panic(m1) ELSE Ok(m1, <<>>))

ParserNew(l) ==
    Bind(P_next_token([lexer |-> l, errors |-> <<>>, cur_token |-> Illegal,
                       peek_token |-> Illegal, panicked |-> FALSE]),
         LAMBDA m1 : IF m1.panicked THEN m1 ELSE P_next_token(m1))

new_from_string(s) == ParserNew(LexerNew(s))

expect_peek_advancing(m, token, expected) ==
    IF m.peek_token # token
    THEN Err(P_next_token(m), ParserError(expected, m.peek_token))
    ELSE Advance(m)

expect_peek(m, token, expected) ==
    IF m.peek_token # token
    THEN Err(m, ParserError(expected, m.peek_token))
    ELSE Advance(m)

parse_identifier_string(m) ==
    IF m.cur_token.type = "Ident"
    THEN Ok(m, m.cur_token.literal)
    ELSE Err(m, ParserError("ExpectedIdentifierToken", m.cur_token))

parse_identifier(m) ==
    Try(parse_identifier_string(m), LAMBDA r : Ok(m, Identifier(r.x)))

parse_integer_literal_as_syntax_error(m) ==
    IF m.cur_token.type = "Int"
    THEN Bind(parse_i64(m.cur_token.literal), LAMBDA c :
            IF c.ok THEN Ok(m, IntegerLiteral(c.value))
            ELSE Err(m, ParserError("ExpectedIntegerToken", m.cur_token)))
    ELSE Err(m, ParserError("ExpectedIntegerToken", m.cur_token))

parse_integer_literal(m) ==
    IF m.cur_token.type = "Int"
    THEN Bind(parse_i64(m.cur_token.literal), LAMBDA c :
            IF c.ok THEN Ok(m, IntegerLiteral(c.value))
            ELSE Err(m, ParserErrorText("ParseInt", m.cur_token.literal)))
    ELSE Err(m, ParserError("ExpectedIntegerToken", m.cur_token))

parse_float_literal(m) ==
    IF m.cur_token.type = "Float"
    THEN Bind(parse_f64(m.cur_token.literal), LAMBDA c :
            IF c.ok THEN Ok(m, FloatLiteral(c.value))
            ELSE Err(m, ParserErrorText("ParseFloat", m.cur_token.literal)))
    ELSE Err(m, ParserError("ExpectedFloatToken", m.cur_token))

parse_string_literal(m) ==
    IF m.cur_token.type = "Str"
    THEN Ok(m, StringLiteral(m.cur_token.literal))
    ELSE Err(m, ParserError("ExpectedStringToken", m.cur_token))

parse_boolean(m) ==
    CASE m.cur_token.type = "True" -> Ok(m, Boolean(TRUE))
      [] m.cur_token.type = "False" -> Ok(m, Boolean(FALSE))
      [] OTHER -> Err(m, ParserError("ExpectedBooleanToken", m.cur_token))

\* the literal parser selected by the kind of the current token, or "None"
parse_value(m) ==
    CASE m.cur_token.type = "Ident" -> "parse_identifier"
      [] m.cur_token.type = "Int" -> "parse_integer_literal"
      [] m.cur_token.type = "Float" -> "parse_float_literal"
      [] m.cur_token.type = "Str" -> "parse_string_literal"
      [] m.cur_token.type = "True" -> "parse_boolean"
      [] m.cur_token.type = "False" -> "parse_boolean"
      [] OTHER -> "None"

\* value(self): the call through the selected function pointer
CallValueParseFn(fn, m) ==
    CASE fn = "parse_identifier" -> parse_identifier(m)
      [] fn = "parse_integer_literal" -> parse_integer_literal(m)
      [] fn = "parse_float_literal" -> parse_float_literal(m)
      [] fn = "parse_string_literal" -> parse_string_literal(m)
      [] fn = "parse_boolean" -> parse_boolean(m)

FilterInfix_LeGeSwapped(token) ==
    CASE token.type = "Eq" -> "Eq"
      [] token.type = "NotEq" -> "NotEq"
      [] token.type = "Le" -> "Ge"
      [] token.type = "Ge" -> "Le"
      [] token.type = "Lt" -> "Lt"
      [] token.type = "Gt" -> "Gt"
      [] OTHER -> "None"

\* the match at the head of parse_filter
FilterInfix(token) ==
    CASE token.type = "Eq" -> "Eq"
      [] token.type = "NotEq" -> "NotEq"
      [] token.type = "Le" -> "Le"
      [] token.type = "Ge" -> "Ge"
      [] token.type = "Lt" -> "Lt"
      [] token.type = "Gt" -> "Gt"
      [] OTHER -> "None"

\* parse_value().ok_or_else(..)?, then value(self)
ParseValue(m) ==
    IF parse_value(m) = "None"
    THEN Err(m, ParserError("ExpectedValueToken", m.cur_token))
    ELSE CallValueParseFn(parse_value(m), m)

parse_filter(m) ==
    IF FilterInfix(m.cur_token) = "None"
    THEN Err(m, ParserError("ExpectedFilterToken", m.cur_token))
    ELSE
    Try(expect_peek(m, Lparen, "ExpectedLparen"), LAMBDA lp :
    Try(Advance(lp.m), LAMBDA a1 :
    Try(parse_identifier(a1.m), LAMBDA idnet :
    Try(expect_peek(idnet.m, Comma, "ExpectedComma"), LAMBDA cm :
    Try(Advance(cm.m), LAMBDA a2 :
    Try(ParseValue(a2.m), LAMBDA val :
    Try(expect_peek(val.m, Rparen, "ExpectedRparen"), LAMBDA rp :
    Try(Advance(rp.m), LAMBDA a3 :
        Ok(a3.m, QueryFilter(FilterInfix(m.cur_token), idnet.x, val.x))))))))))

RECURSIVE parse_query(_)
RECURSIVE AndLoop(_, _)
RECURSIVE OrLoop(_, _)

RECURSIVE AndLoop_prepending(_, _)
AndLoop_prepending(m, queries) ==
    IF m.cur_token = Rparen THEN Ok(m, queries)
    ELSE
    Try(parse_query(m), LAMBDA q :
    Try(IF q.m.cur_token = Comma THEN Advance(q.m) ELSE Ok(q.m, <<>>), LAMBDA sep :
        AndLoop_prepending(sep.m, <<q.x>> \o queries)))

\* the while loop of parse_and, entered with the queries collected so far
AndLoop(m, queries) ==
    IF m.cur_token = Rparen THEN Ok(m, queries)
    ELSE
    Try(parse_query(m), LAMBDA q :
    Try(IF q.m.cur_token = Comma THEN Advance(q.m) ELSE Ok(q.m, <<>>), LAMBDA sep :
        AndLoop(sep.m, Append(queries, q.x))))

parse_and_staying_on_rparen(m) ==
    Try(expect_peek(m, Lparen, "ExpectedLparen"), LAMBDA lp :
    Try(Advance(lp.m), LAMBDA a1 :
    Try(AndLoop(a1.m, <<>>), LAMBDA qs :
        Ok(qs.m, QueryAnd(qs.x)))))

parse_and(m) ==
    Try(expect_peek(m, Lparen, "ExpectedLparen"), LAMBDA lp :
    Try(Advance(lp.m), LAMBDA a1 :
    Try(AndLoop(a1.m, <<>>), LAMBDA qs :
    Try(Advance(qs.m), LAMBDA a2 :
        Ok(a2.m, QueryAnd(qs.x))))))

\* the while loop of parse_or
OrLoop(m, queries) ==
    IF m.cur_token = Rparen THEN Ok(m, queries)
    ELSE
    Try(parse_query(m), LAMBDA q :
    Try(IF q.m.cur_token = Comma THEN Advance(q.m) ELSE Ok(q.m, <<>>), LAMBDA sep :
        OrLoop(sep.m, Append(queries, q.x))))

parse_or(m) ==
    Try(expect_peek(m, Lparen, "ExpectedLparen"), LAMBDA lp :
    Try(Advance(lp.m), LAMBDA a1 :
    Try(OrLoop(a1.m, <<>>), LAMBDA qs :
    Try(Advance(qs.m), LAMBDA a2 :
        Ok(a2.m, QueryOr(qs.x))))))

parse_query(m) ==
    CASE m.cur_token.type = "And" -> parse_and(m)
      [] m.cur_token.type = "Or" -> parse_or(m)
      [] OTHER -> parse_filter(m)

(***************************************************************************)
(* Value::eq .. Value::ge against an external scalar (serde_json::Value).  *)
(* Here an i64 is an integer, and an f64 is written as the integer number  *)
(* of halves it holds (3 is 1.5), so that n as f64 is 2 * n.  A scalar is  *)
(* <<"String", s>>, <<"Integer", n>>, <<"Float", h>>, <<"Bool", b>> or     *)
(* <<"Null">>.                                                             *)
(***************************************************************************)
Some(v) == [some |-> TRUE, v |-> v]

as_str(comparison) ==
    IF comparison[1] = "String" THEN Some(comparison[2]) ELSE [some |-> FALSE, v |-> <<>>]

as_i64(comparison) ==
    IF comparison[1] = "Integer" THEN Some(comparison[2]) ELSE [some |-> FALSE, v |-> 0]

\* an integer is handed over converted to f64
as_f64(comparison) ==
    CASE comparison[1] = "Float" -> Some(comparison[2])
      [] comparison[1] = "Integer" -> Some(2 * comparison[2])
      [] OTHER -> [some |-> FALSE, v |-> 0]

as_bool(comparison) ==
    IF comparison[1] = "Bool" THEN Some(comparison[2]) ELSE [some |-> FALSE, v |-> FALSE]

eq(self, comparison) ==
    CASE self[1] = "StringLiteral" ->
            as_str(comparison).some /\ as_str(comparison).v = self[2]
      [] self[1] = "Identifier" ->
            as_str(comparison).some /\ as_str(comparison).v = self[2]
      [] self[1] = "IntegerLiteral" ->
            as_i64(comparison).some /\ as_i64(comparison).v = self[2]
      [] self[1] = "FloatLiteral" ->
            as_f64(comparison).some /\ as_f64(comparison).v = self[2]
      [] self[1] = "Boolean" ->
            as_bool(comparison).some /\ as_bool(comparison).v = self[2]

ne_negated_eq(self, comparison) == ~eq(self, comparison)

ne(self, comparison) ==
    CASE self[1] = "StringLiteral" ->
            as_str(comparison).some /\ as_str(comparison).v # self[2]
      [] self[1] = "Identifier" ->
            as_str(comparison).some /\ as_str(comparison).v # self[2]
      [] self[1] = "IntegerLiteral" ->
            as_i64(comparison).some /\ as_i64(comparison).v # self[2]
      [] self[1] = "FloatLiteral" ->
            as_f64(comparison).some /\ as_f64(comparison).v # self[2]
      [] self[1] = "Boolean" ->
            as_bool(comparison).some /\ as_bool(comparison).v # self[2]

lt(self, comparison) ==
    CASE self[1] = "IntegerLiteral" ->
            as_i64(comparison).some /\ self[2] > as_i64(comparison).v
      [] self[1] = "FloatLiteral" ->
            as_f64(comparison).some /\ self[2] > as_f64(comparison).v
      [] OTHER -> FALSE

le(self, comparison) ==
    CASE self[1] = "IntegerLiteral" ->
            as_i64(comparison).some /\ self[2] >= as_i64(comparison).v
      [] self[1] = "FloatLiteral" ->
            as_f64(comparison).some /\ self[2] >= as_f64(comparison).v
      [] OTHER -> FALSE

gt(self, comparison) ==
    CASE self[1] = "IntegerLiteral" ->
            as_i64(comparison).some /\ self[2] < as_i64(comparison).v
      [] self[1] = "FloatLiteral" ->
            as_f64(comparison).some /\ self[2] < as_f64(comparison).v
      [] OTHER -> FALSE

ge_strict(self, comparison) ==
    CASE self[1] = "IntegerLiteral" ->
            as_i64(comparison).some /\ self[2] < as_i64(comparison).v
      [] self[1] = "FloatLiteral" ->
            as_f64(comparison).some /\ self[2] < as_f64(comparison).v
      [] OTHER -> FALSE

ge(self, comparison) ==
    CASE self[1] = "IntegerLiteral" ->
            as_i64(comparison).some /\ self[2] <= as_i64(comparison).v
      [] self[1] = "FloatLiteral" ->
            as_f64(comparison).some /\ self[2] <= as_f64(comparison).v
      [] OTHER -> FALSE

(***************************************************************************)
(* Input texts                                                             *)
(***************************************************************************)
MaxLen == 4
MaxLexCalls == 4
MaxIns == 2
MaxNodes == 4
MaxCalls == 2
MaxInt == 2
MaxTail == 2

RECURSIVE Concat(_)
\* the concatenation of a sequence of strings
Concat(ss) == IF ss = <<>> THEN <<>> ELSE Head(ss) \o Concat(Tail(ss))

RECURSIVE SeqsUpTo(_, _)
\* the sequences over S of length at most n
SeqsUpTo(S, n) ==
    IF n = 0 THEN {<<>>}
    ELSE LET shorter == SeqsUpTo(S, n - 1)
         IN shorter \cup {Append(x, c) : x \in {y \in shorter : Len(y) = n - 1}, c \in S}

\* SpecLexer: every text of at most MaxLen characters over these
LexAlphabet == {"e", "q", "1", ".", QUOTE, NUL, " ", "(", EACUTE}
LexInputs == SeqsUpTo(LexAlphabet, MaxLen)

\* SpecFilter: cmp_op ( identifier , value ), each with the tree it denotes
Comparators ==
    { [lex |-> <<"e","q">>, infix |-> "Eq"], [lex |-> <<"n","e">>, infix |-> "NotEq"],
      [lex |-> <<"l","e">>, infix |-> "Le"], [lex |-> <<"g","e">>, infix |-> "Ge"],
      [lex |-> <<"l","t">>, infix |-> "Lt"], [lex |-> <<"g","t">>, infix |-> "Gt"] }

Fields == { <<"a">>, <<"f","o","o",".","b","a","r">> }

\* 2^64 + 7: modulo 2^64 it is 7
TwoTo64Plus7 ==
    <<"1","8","4","4","6","7","4","4","0","7","3","7","0","9","5","5","1","6","2","3">>

ValueCases ==
    { [lex |-> <<"a">>, type |-> "Ident", fits |-> TRUE, val |-> Identifier(<<"a">>)],
      [lex |-> <<"7">>, type |-> "Int", fits |-> TRUE, val |-> IntegerLiteral(<<"7">>)],
      [lex |-> <<"0","0","7">>, type |-> "Int", fits |-> TRUE,
       val |-> IntegerLiteral(<<"7">>)],
      [lex |-> I64Max, type |-> "Int", fits |-> TRUE, val |-> IntegerLiteral(I64Max)],
      [lex |-> I64MinMagnitude, type |-> "Int", fits |-> FALSE,
       val |-> IntegerLiteral(I64MinMagnitude)],
      [lex |-> <<"0">> \o I64Max, type |-> "Int", fits |-> TRUE,
       val |-> IntegerLiteral(I64Max)],
      [lex |-> TwoTo64Plus7, type |-> "Int", fits |-> FALSE,
       val |-> IntegerLiteral(TwoTo64Plus7)],
      [lex |-> <<"1",".","5">>, type |-> "Float", fits |-> TRUE,
       val |-> FloatLiteral(<<"+", <<"1">>, <<"5">>>>)],
      [lex |-> <<"0","1",".","5","0">>, type |-> "Float", fits |-> TRUE,
       val |-> FloatLiteral(<<"+", <<"1">>, <<"5">>>>)],
      [lex |-> <<QUOTE,"x",QUOTE>>, type |-> "Str", fits |-> TRUE,
       val |-> StringLiteral(<<"x">>)],
      [lex |-> <<QUOTE,QUOTE>>, type |-> "Str", fits |-> TRUE, val |-> StringLiteral(<<>>)],
      [lex |-> <<"t","r","u","e">>, type |-> "True", fits |-> TRUE, val |-> Boolean(TRUE)],
      [lex |-> <<"f","a","l","s","e">>, type |-> "False", fits |-> TRUE,
       val |-> Boolean(FALSE)] }

FilterLexemes(k, f, v) == <<k.lex, <<"(">>, f, <<",">>, v.lex, <<")">>>>

\* what may stand in the place of one token of eq(a,7)
InsLexemes ==
    { <<"#">>, <<NUL>>, <<EACUTE>>, <<QUOTE>>, <<",">>, <<"(">>, <<")">>,
      <<"a">>, <<"7">>, <<"e","q">> }

EqA7 == <<<<"e","q">>, <<"(">>, <<"a">>, <<",">>, <<"7">>, <<")">>>>

\* the lexemes ls with the pos-th replaced by the lexemes ins
Replaced(ls, pos, ins) ==
    SubSeq(ls, 1, pos - 1) \o ins \o SubSeq(ls, pos + 1, Len(ls))

FilterOrigins ==
    { [input |-> Concat(FilterLexemes(k, f, v)), k |-> k, f |-> f, v |-> v, pos |-> 0]
        : k \in Comparators, f \in Fields, v \in ValueCases }
    \cup
    { [input |-> Concat(Replaced(EqA7, pos, ins)),
       k |-> CHOOSE k \in Comparators : k.infix = "Eq", f |-> <<"a">>,
       v |-> CHOOSE v \in ValueCases : v.lex = <<"7">>, pos |-> pos]
        : pos \in 1..Len(EqA7), ins \in SeqsUpTo(InsLexemes, MaxIns) }

\* SpecTree: query trees, written out by the grammar of and(...) / or(...).
\* An item is one token's text with the place it has in the grammar.
Item(lex, role) == [lex |-> lex, role |-> role]

Leaves ==
    { [q |-> QueryFilter("Eq", Identifier(<<"a">>), IntegerLiteral(<<"7">>)),
       items |-> <<Item(<<"e","q">>, "query"), Item(<<"(">>, "lparen"),
                   Item(<<"a">>, "ident"), Item(<<",">>, "comma"),
                   Item(<<"7">>, "value"), Item(<<")">>, "rparen")>>],
      [q |-> QueryFilter("Lt", Identifier(<<"b",".","c">>),
                         FloatLiteral(<<"+", <<"6","0">>, <<>>>>)),
       items |-> <<Item(<<"l","t">>, "query"), Item(<<"(">>, "lparen"),
                   Item(<<"b",".","c">>, "ident"), Item(<<",">>, "comma"),
                   Item(<<" ","6","0",".","0">>, "value"), Item(<<")">>, "rparen")>>] }

RECURSIVE TreesOfSize(_)
RECURSIVE ListsOfSize(_)
\* the queries of exactly n nodes
TreesOfSize(n) ==
    (IF n = 1 THEN {l.q : l \in Leaves} ELSE {})
    \cup {QueryAnd(qs) : qs \in ListsOfSize(n - 1)}
    \cup {QueryOr(qs) : qs \in ListsOfSize(n - 1)}

\* the lists of queries of n nodes in all
ListsOfSize(n) ==
    IF n = 0 THEN {<<>>}
    ELSE UNION { {<<t>> \o rest : t \in TreesOfSize(k), rest \in ListsOfSize(n - k)}
                   : k \in 1..n }

Trees(n) == UNION {TreesOfSize(k) : k \in 1..n}

IsList(q) == q[1] \in {"And", "Or"}

RECURSIVE Render(_, _)
RECURSIVE RenderList(_, _, _)
\* the items of q; mode "std" follows query_list, "space" puts a blank where the
\* grammar has a comma, "trailing" puts a comma after the last query of a list
Render(q, mode) ==
    IF IsList(q)
    THEN <<Item(IF q[1] = "And" THEN <<"a","n","d">> ELSE <<"o","r">>, "query"),
           Item(<<"(">>, "lparen")>>
         \o RenderList(q[2], mode, 1)
         \o (IF mode = "trailing" /\ q[2] # <<>> THEN <<Item(<<",">>, "sep")>> ELSE <<>>)
         \o <<Item(<<")">>, "close")>>
    ELSE (CHOOSE l \in Leaves : l.q = q).items

RenderList(qs, mode, i) ==
    IF i > Len(qs) THEN <<>>
    ELSE (IF i = 1 THEN <<>>
          ELSE <<Item(IF mode = "space" THEN <<" ">> ELSE <<",">>, "sep")>>)
         \o Render(qs[i], mode) \o RenderList(qs, mode, i + 1)

Text(items) == Concat([i \in 1..Len(items) |-> items[i].lex])

RECURSIVE HasListOfAtLeast(_, _)
\* some and/or of q has n arguments or more
HasListOfAtLeast(q, n) ==
    IsList(q) /\ (Len(q[2]) >= n \/ \E i \in 1..Len(q[2]) : HasListOfAtLeast(q[2][i], n))

\* the text of q is outside query_list in this mode
OutsideGrammar(q, mode) ==
    \/ mode = "space" /\ HasListOfAtLeast(q, 2)
    \/ mode = "trailing" /\ HasListOfAtLeast(q, 1)

\* an item is damaged by putting '#' in its place, or by ending the text before it
Damaged(items, pos, bad) ==
    IF bad = "#" THEN Text(Replaced(items, pos, <<Item(<<"#">>, "bad")>>))
    ELSE Text(SubSeq(items, 1, pos - 1))

TreeOrigins ==
    { [input |-> Text(Render(q, mode)), q |-> q, mode |-> mode, pos |-> 0, bad |-> "-"]
        : q \in Trees(MaxNodes), mode \in {"std", "space", "trailing"} }
    \cup
    UNION { { [input |-> Damaged(Render(q, "std"), pos, bad), q |-> q, mode |-> "std",
               pos |-> pos, bad |-> bad]
                : pos \in 1..Len(Render(q, "std")), bad \in {"#", "cut"} }
            : q \in Trees(MaxNodes - 1) }

(***************************************************************************)
(* Specifications                                                          *)
(***************************************************************************)
NoLexer == [input |-> <<>>, position |-> 0, ch |-> NUL, chars |-> 0]
NoParser == [lexer |-> NoLexer, errors |-> <<>>, cur_token |-> NoToken,
             peek_token |-> NoToken, panicked |-> FALSE]
NoResult == [kind |-> "none", x |-> <<>>, e |-> NoError]
NoOrigin == [input |-> <<>>]
NoOutcome == [op |-> "none", res |-> FALSE]
NoSub == [fn |-> "-", at |-> 0]

LexerIdle == lexer = NoLexer /\ tok = NoToken /\ lexcalls = 0
ParserIdle ==
    origin = NoOrigin /\ parser = NoParser /\ result = NoResult /\ calls = 0 /\ sub = NoSub
ValueIdle == value = <<>> /\ scalar = <<>> /\ outcome = NoOutcome

\* ---- the lexer alone: Lexer::new(input), then next_token again and again
NotCalled == Token("none")

InitLexer ==
    /\ \E input \in LexInputs : lexer = LexerNew(input)
    /\ tok = NotCalled
    /\ lexcalls = 0
    /\ ParserIdle /\ ValueIdle

NextToken ==
    /\ tok # NoToken
    /\ lexcalls < MaxLexCalls
    /\ \E r \in {next_token(lexer)} :
          /\ lexer' = r.lexer
          /\ tok' = r.tok
    /\ lexcalls' = lexcalls + 1
    /\ UNCHANGED <<origin, parser, result, calls, value, scalar, outcome, sub>>

SpecLexer == InitLexer /\ [][NextToken]_vars

\* ---- the parser: Parser::new_from_string(input), then parse_query
NewFromString ==
    /\ parser = NoParser
    /\ parser' = new_from_string(origin.input)
    /\ UNCHANGED <<lexer, tok, lexcalls, origin, result, calls, value, scalar, outcome, sub>>

ParseQuery ==
    /\ parser # NoParser
    /\ ~parser.panicked
    /\ calls < MaxCalls
    /\ \E r \in {parse_query(parser)} :
          /\ parser' = r.m
          /\ result' = [kind |-> r.kind, x |-> r.x, e |-> r.e]
    /\ calls' = calls + 1
    /\ UNCHANGED <<lexer, tok, lexcalls, origin, value, scalar, outcome, sub>>

InitFilter ==
    /\ origin \in FilterOrigins
    /\ parser = NoParser /\ result = NoResult /\ calls = 0 /\ sub = NoSub
    /\ LexerIdle /\ ValueIdle

NextParser == NewFromString \/ ParseQuery

SpecFilter == InitFilter /\ [][NextParser]_vars

InitTree ==
    /\ origin \in TreeOrigins
    /\ parser = NoParser /\ result = NoResult /\ calls = 0 /\ sub = NoSub
    /\ LexerIdle /\ ValueIdle

SpecTree == InitTree /\ [][NextParser]_vars

\* ---- the parse functions one by one: Parser::new_from_string(input), next_token
\* until the cursor is where a construct may start, then one parse function,
\* called where parse_query, parse_filter and parse_value call it
Tails == { <<>>, <<")", ",", "e","q">>, <<NUL, ")">> }

\* the small trees, and three with two arguments or two levels of nesting
SubTrees ==
    Trees(MaxNodes - 2)
    \cup { QueryAnd(<<l.q, m.q>>) : l \in Leaves, m \in Leaves }
    \cup { QueryAnd(<<QueryOr(<<l.q>>)>>) : l \in Leaves }
    \cup { QueryOr(<<QueryAnd(<<>>), l.q>>) : l \in Leaves }

SubOrigins ==
    { [input |-> Text(Render(q, "std")) \o tail] : q \in SubTrees, tail \in Tails }
    \cup
    { [input |-> Concat(FilterLexemes(k, <<"a">>, v))]
        : k \in {c \in Comparators : c.infix = "Eq"}, v \in ValueCases }

InitSub ==
    /\ origin \in SubOrigins
    /\ parser = NoParser /\ result = NoResult /\ calls = 0 /\ sub = NoSub
    /\ LexerIdle /\ ValueIdle

SkipToken ==
    /\ parser # NoParser
    /\ ~parser.panicked
    /\ sub.fn = "-"
    /\ parser.cur_token # Eof
    /\ parser' = P_next_token(parser)
    /\ sub' = [sub EXCEPT !.at = @ + 1]
    /\ UNCHANGED <<lexer, tok, lexcalls, origin, result, calls, value, scalar, outcome>>

\* the call of fn, returning the one element of rs
SubParse(fn, rs) ==
    /\ \E r \in rs :
          /\ parser' = r.m
          /\ result' = [kind |-> r.kind, x |-> r.x, e |-> r.e]
    /\ sub' = [sub EXCEPT !.fn = fn]
    /\ calls' = calls + 1
    /\ UNCHANGED <<lexer, tok, lexcalls, origin, value, scalar, outcome>>

AtCursor == parser # NoParser /\ ~parser.panicked /\ sub.fn = "-"

CallParseQuery == AtCursor /\ SubParse("parse_query", {parse_query(parser)})
CallParseAnd ==
    AtCursor /\ parser.cur_token.type = "And" /\ SubParse("parse_and", {parse_and(parser)})
CallParseOr ==
    AtCursor /\ parser.cur_token.type = "Or" /\ SubParse("parse_or", {parse_or(parser)})
CallParseFilter ==
    AtCursor /\ parser.cur_token.type \notin {"And", "Or"}
             /\ SubParse("parse_filter", {parse_filter(parser)})
CallParseIdentifier ==
    AtCursor /\ SubParse("parse_identifier", {parse_identifier(parser)})
CallParseIntegerLiteral ==
    AtCursor /\ parse_value(parser) = "parse_integer_literal"
             /\ SubParse("parse_integer_literal", {parse_integer_literal(parser)})
CallParseFloatLiteral ==
    AtCursor /\ parse_value(parser) = "parse_float_literal"
             /\ SubParse("parse_float_literal", {parse_float_literal(parser)})
CallParseStringLiteral ==
    AtCursor /\ parse_value(parser) = "parse_string_literal"
             /\ SubParse("parse_string_literal", {parse_string_literal(parser)})
CallParseBoolean ==
    AtCursor /\ parse_value(parser) = "parse_boolean"
             /\ SubParse("parse_boolean", {parse_boolean(parser)})

NextSub ==
    \/ NewFromString \/ SkipToken
    \/ CallParseQuery \/ CallParseAnd \/ CallParseOr \/ CallParseFilter
    \/ CallParseIdentifier \/ CallParseIntegerLiteral \/ CallParseFloatLiteral
    \/ CallParseStringLiteral \/ CallParseBoolean

SpecSub == InitSub /\ [][NextSub]_vars

\* ---- parse_query on a text with more text after it
TailLexemes ==
    { <<")">>, <<"#">>, <<",">>, <<"e","q","(","a",",","7",")">>, <<NUL>>, <<EACUTE>> }

TailOrigins ==
    { [input |-> b \o Concat(tail), base |-> b, tail |-> tail]
        : b \in {Text(Render(q, mode))
                    : q \in Trees(MaxNodes - 2), mode \in {"std", "space", "trailing"}}
                \cup {Concat(FilterLexemes(k, <<"a">>, v))
                        : k \in {c \in Comparators : c.infix = "Eq"}, v \in ValueCases}
                \cup {<<"a","n","d","(","e","q","(","a",",","7",")">>},
          tail \in SeqsUpTo(TailLexemes, MaxTail) }

InitTail ==
    /\ origin \in TailOrigins
    /\ parser = NoParser /\ result = NoResult /\ calls = 0 /\ sub = NoSub
    /\ LexerIdle /\ ValueIdle

SpecTail == InitTail /\ [][NextParser]_vars

\* ---- the comparisons of one Value with one external scalar
Texts == {<<"a">>, <<"b">>}
Halves == (0 - 2 * MaxInt)..(2 * MaxInt)

Values ==
    {Identifier(t) : t \in Texts} \cup {StringLiteral(t) : t \in Texts}
    \cup {IntegerLiteral(n) : n \in (0 - MaxInt)..MaxInt}
    \cup {FloatLiteral(h) : h \in Halves}
    \cup {Boolean(b) : b \in BOOLEAN}

Scalars ==
    {<<"String", t>> : t \in Texts} \cup {<<"Integer", n>> : n \in (0 - MaxInt)..MaxInt}
    \cup {<<"Float", h>> : h \in Halves} \cup {<<"Bool", b>> : b \in BOOLEAN}
    \cup {<<"Null">>}

InitValue ==
    /\ value \in Values
    /\ scalar \in Scalars
    /\ outcome = NoOutcome
    /\ LexerIdle /\ ParserIdle

Compared(op, res) ==
    /\ outcome' = [op |-> op, res |-> res]
    /\ UNCHANGED <<lexer, tok, lexcalls, origin, parser, result, calls, value, scalar, sub>>

CallEq == Compared("eq", eq(value, scalar))
CallNe == Compared("ne", ne(value, scalar))
CallLt == Compared("lt", lt(value, scalar))
CallLe == Compared("le", le(value, scalar))
CallGt == Compared("gt", gt(value, scalar))
CallGe == Compared("ge", ge(value, scalar))

NextValue == CallEq \/ CallNe \/ CallLt \/ CallLe \/ CallGt \/ CallGe

SpecValue == InitValue /\ [][NextValue]_vars

(***************************************************************************)
(* C4, C5: the comparisons (SpecValue)                                     *)
(***************************************************************************)
Ordering == {"lt", "le", "gt", "ge"}

\* C4: for an IntegerLiteral(n) and an integer candidate c the ordering
\* operations read `candidate op literal': lt(c) iff c < n, le(c) iff c <= n,
\* gt(c) iff c > n, ge(c) iff c >= n; for a StringLiteral, an Identifier or a
\* Boolean all four are false for every candidate.
C4_OrderingReadsCandidateOpLiteral ==
    /\ (value[1] = "IntegerLiteral" /\ scalar[1] = "Integer") =>
          LET n == value[2]
              c == scalar[2]
          IN /\ outcome.op = "lt" => (outcome.res <=> c < n)
             /\ outcome.op = "le" => (outcome.res <=> c <= n)
             /\ outcome.op = "gt" => (outcome.res <=> c > n)
             /\ outcome.op = "ge" => (outcome.res <=> c >= n)
    /\ (value[1] \in {"StringLiteral", "Identifier", "Boolean"} /\ outcome.op \in Ordering)
          => ~outcome.res

\* ge at the boundary c = n is true
C4_Witness ==
    /\ value[1] = "IntegerLiteral" /\ scalar[1] = "Integer"
    /\ value[2] = scalar[2]
    /\ outcome.op = "ge" /\ outcome.res

\* the runtime kind of a scalar that matches a Value's kind
KindOf(v) ==
    CASE v[1] \in {"StringLiteral", "Identifier"} -> "String"
      [] v[1] = "IntegerLiteral" -> "Integer"
      [] v[1] = "FloatLiteral" -> "Float"
      [] v[1] = "Boolean" -> "Bool"

KindMismatch ==
    scalar[1] \in {"String", "Integer", "Float", "Bool"} /\ scalar[1] # KindOf(value)

\* C5 as written: whenever the candidate's kind differs from the Value's kind,
\* both eq and ne return false (a FloatLiteral against an integer included).
C5_MismatchIsIncomparable ==
    (KindMismatch /\ outcome.op \in {"eq", "ne"}) => ~outcome.res

\* C5 as amended: whenever the candidate's kind differs from the Value's kind
\* both eq and ne return false, except for a FloatLiteral against an integer
\* candidate: the integer is converted to a float, eq is true iff it equals the
\* literal and ne is true iff it differs from it.
C5_MismatchIsIncomparableButIntAsFloat ==
    /\ (KindMismatch /\ outcome.op \in {"eq", "ne"}
          /\ ~(value[1] = "FloatLiteral" /\ scalar[1] = "Integer")) => ~outcome.res
    /\ (value[1] = "FloatLiteral" /\ scalar[1] = "Integer") =>
          /\ outcome.op = "eq" => (outcome.res <=> 2 * scalar[2] = value[2])
          /\ outcome.op = "ne" => (outcome.res <=> 2 * scalar[2] # value[2])

\* ne of an IntegerLiteral against a float candidate has been called (and was false)
C5_Witness ==
    /\ value[1] = "IntegerLiteral" /\ scalar[1] = "Float"
    /\ outcome.op = "ne" /\ ~outcome.res

(***************************************************************************)
(* C6, C9, C10: the lexer (SpecLexer)                                      *)
(***************************************************************************)
RECURSIVE AfterCalls(_, _)
\* the lexer after n calls of next_token on l
AfterCalls(l, n) == IF n = 0 THEN l ELSE AfterCalls(next_token(l).lexer, n - 1)

\* the lexer as the last call found it, once it had skipped the whitespace
At == skip_whitespace(AfterCalls(LexerNew(lexer.input), lexcalls - 1))

\* the same for the call before the last
AtPrevious == skip_whitespace(AfterCalls(LexerNew(lexer.input), lexcalls - 2))

\* the index in the input of the character l is at (a character other than NUL)
CurIndex(l) == IF l.chars <= Len(l.input) THEN l.chars - 1 ELSE Len(l.input)

RECURSIVE StripTrailingNuls(_)
StripTrailingNuls(s) ==
    IF Len(s) > 0 /\ s[Len(s)] = NUL THEN StripTrailingNuls(SubSeq(s, 1, Len(s) - 1)) ELSE s

\* the characters l has still to classify: the one it is at and those its
\* iterator holds (the end of the input reads as U+0000 for ever)
Ahead(l) == StripTrailingNuls(<<l.ch>> \o SubSeq(l.input, l.chars, Len(l.input)))

\* the lexer is at the j-th character of its input (at the end for j = Len + 1)
IsAt(l, j) == Ahead(l) = StripTrailingNuls(SubSeq(l.input, j, Len(l.input)))

IsIdentChar(c) == is_letter(c) \/ is_digit(c)

\* the end (exclusive) of the longest run of identifier characters from i
IdentRunEnd(s, i) ==
    CHOOSE j \in i..(Len(s) + 1) :
        /\ \A k \in i..(j - 1) : IsIdentChar(s[k])
        /\ (j = Len(s) + 1 \/ ~IsIdentChar(s[j]))

\* the end (exclusive) of the longest run of digits from i
DigitRunEnd(s, i) ==
    CHOOSE j \in i..(Len(s) + 1) :
        /\ \A k \in i..(j - 1) : is_digit(s[k])
        /\ (j = Len(s) + 1 \/ ~is_digit(s[j]))

\* the index of the first '"' from i on, Len + 1 if there is none
QuoteFrom(s, i) ==
    CHOOSE j \in i..(Len(s) + 1) :
        /\ \A k \in i..(j - 1) : s[k] # QUOTE
        /\ (j = Len(s) + 1 \/ s[j] = QUOTE)

KeywordSpellings ==
    { [text |-> <<"t","r","u","e">>, type |-> "True"],
      [text |-> <<"f","a","l","s","e">>, type |-> "False"],
      [text |-> <<"e","q">>, type |-> "Eq"], [text |-> <<"n","e">>, type |-> "NotEq"],
      [text |-> <<"l","e">>, type |-> "Le"], [text |-> <<"g","e">>, type |-> "Ge"],
      [text |-> <<"l","t">>, type |-> "Lt"], [text |-> <<"g","t">>, type |-> "Gt"],
      [text |-> <<"a","n","d">>, type |-> "And"], [text |-> <<"o","r">>, type |-> "Or"],
      [text |-> <<"s","o","r","t">>, type |-> "Sort"],
      [text |-> <<"s","e","l","e","c","t">>, type |-> "Select"],
      [text |-> <<"v","a","l","u","e","s">>, type |-> "Values"],
      [text |-> <<"a","g","g","r","e","g","a","t","e">>, type |-> "Aggregate"],
      [text |-> <<"d","i","s","t","i","n","c","t">>, type |-> "Distinct"],
      [text |-> <<"i","n">>, type |-> "In"], [text |-> <<"o","u","t">>, type |-> "Out"],
      [text |-> <<"c","o","n","t","a","i","n","s">>, type |-> "Contains"],
      [text |-> <<"e","x","c","l","u","d","e","s">>, type |-> "Excludes"],
      [text |-> <<"l","i","m","i","t">>, type |-> "Limit"] }

KeywordOrIdent(run) ==
    IF \E k \in KeywordSpellings : k.text = run
    THEN Token((CHOOSE k \in KeywordSpellings : k.text = run).type)
    ELSE TokenLit("Ident", run)

\* C6: at a letter, '_', '.' or '$' the lexer takes the longest run of letters,
\* digits, '_', '.' and '$' and returns one token for the whole run: the keyword
\* whose spelling the run is, Ident(run) otherwise; the next token starts after
\* the run.
C6_IdentifierIsMaximalMunch ==
    (lexcalls > 0 /\ is_letter(At.ch)) =>
        LET s == lexer.input
            i == CurIndex(At)
            j == IdentRunEnd(s, i)
        IN /\ tok = KeywordOrIdent(SubSeq(s, i, j - 1))
           /\ IsAt(lexer, j)

\* C9: at a '"' the lexer returns Str(t), t being the characters after the quote
\* up to the next '"' or the end of the input; after a closed string the next
\* token starts right after the closing quote; an unclosed one is no error, and
\* the call after it returns Eof.
C9_StringRunsToQuoteOrEnd ==
    /\ (lexcalls > 0 /\ At.ch = QUOTE) =>
          LET s == lexer.input
              i == CurIndex(At)
              j == QuoteFrom(s, i + 1)
          IN /\ tok = TokenLit("Str", SubSeq(s, i + 1, j - 1))
             /\ IsAt(lexer, IF j > Len(s) THEN j ELSE j + 1)
    /\ (lexcalls > 1 /\ AtPrevious.ch = QUOTE
          /\ QuoteFrom(lexer.input, CurIndex(AtPrevious) + 1) > Len(lexer.input))
          => tok = Eof

\* C10: at a digit the lexer takes the longest digit run d1; if a '.' and a digit
\* follow, it takes the '.' and the longest digit run d2 and returns
\* Float(d1.d2); otherwise it returns Int(d1) and the next token starts at the
\* character after d1 (the '.', if there is one).  The text is the raw digits.
C10_NumberIsDigitsOptionallyDotDigits ==
    (lexcalls > 0 /\ is_digit(At.ch)) =>
        LET s == lexer.input
            i == CurIndex(At)
            j == DigitRunEnd(s, i)
            float == j + 1 <= Len(s) /\ s[j] = "." /\ is_digit(s[j + 1])
            k == DigitRunEnd(s, j + 1)
        IN IF float
           THEN tok = TokenLit("Float", SubSeq(s, i, k - 1)) /\ IsAt(lexer, k)
           ELSE tok = TokenLit("Int", SubSeq(s, i, j - 1)) /\ IsAt(lexer, j)

\* the input holds no U+0000
NulFree == \A i \in 1..Len(lexer.input) : lexer.input[i] # NUL

(***************************************************************************)
(* C1, C3: one filter expression (SpecFilter)                              *)
(***************************************************************************)
Returned(r) == [kind |-> r.kind, x |-> r.x, e |-> r.e]

\* the filter the text of an undamaged origin denotes
Denoted == QueryFilter(origin.k.infix, Identifier(origin.f), origin.v.val)

\* C1 as written: parse_query on k ( f , v ) returns Filter(op, Identifier(f), val)
\* for every comparator k, every Ident f and every value token v, an Int of any
\* size included.
C1_FilterOfEveryValueToken ==
    (calls = 1 /\ origin.pos = 0) => result = Returned(Ok(parser, Denoted))

\* C1 as amended: parse_query on k ( f , v ) returns Filter(op, Identifier(f), val)
\* with op the Infix of k, the left operand an Identifier and val the Value
\* variant of the kind of v, where an Int token gives IntegerLiteral when its
\* digits denote at most 2^63 - 1; a larger Int makes the parse fail with
\* ParseInt of its text.
C1_FilterOfEveryValueTokenInRange ==
    (calls = 1 /\ origin.pos = 0) =>
        IF origin.v.fits
        THEN result = Returned(Ok(parser, Denoted))
        ELSE result = Returned(Err(parser, ParserErrorText("ParseInt", origin.v.lex)))

\* ge(f, 01.50) has been parsed to Filter(Ge, Identifier, FloatLiteral)
C1_Witness ==
    /\ calls = 1 /\ origin.pos = 0
    /\ origin.v.lex = <<"0","1",".","5","0">>
    /\ result.kind = "ok"
    /\ result.x[1] = "Filter" /\ result.x[2] = "Ge"
    /\ result.x[3][1] = "Identifier" /\ result.x[4][1] = "FloatLiteral"

RECURSIVE LexTokens(_, _)
\* the first n tokens the lexer l gives, cut short after a call that panics
LexTokens(l, n) ==
    IF n = 0 THEN <<>>
    ELSE Bind(next_token(l), LAMBDA r :
            IF r.panic THEN <<r.tok>> ELSE <<r.tok>> \o LexTokens(r.lexer, n - 1))

\* filter_expr := cmp_op ( identifier , value ): the place of each token, the
\* tokens that fit it and the error for one that does not
FilterPlaces ==
    << [fits |-> {"Eq", "NotEq", "Le", "Ge", "Lt", "Gt"}, error |-> "ExpectedFilterToken"],
       [fits |-> {"Lparen"}, error |-> "ExpectedLparen"],
       [fits |-> {"Ident"}, error |-> "ExpectedIdentifierToken"],
       [fits |-> {"Comma"}, error |-> "ExpectedComma"],
       [fits |-> {"Ident", "Int", "Float", "Str", "True", "False"},
        error |-> "ExpectedValueToken"],
       [fits |-> {"Rparen"}, error |-> "ExpectedRparen"] >>

\* the places of ts (as many as ts has) whose token does not fit
Misfits(ts) == {j \in 1..Len(ts) : ts[j].type \notin FilterPlaces[j].fits}

\* C3: the first token that does not fit filter_expr makes parse_query return
\* the error of its place, carrying that token (eq(foo) -> ExpectedComma(Rparen),
\* eq(foo,) -> ExpectedValueToken(Rparen), eq(foo,"a" -> ExpectedRparen(Eof));
\* and no input makes the parser panic.
C3_FirstMisfitIsTheError ==
    /\ ~parser.panicked
    /\ calls = 1 =>
          LET ts == LexTokens(LexerNew(origin.input), Len(FilterPlaces))
              bad == Misfits(ts)
              j == CHOOSE j \in bad : \A i \in bad : j <= i
          IN (ts[1].type \notin {"And", "Or"} /\ bad # {}) =>
                result = Returned(Err(parser, ParserError(FilterPlaces[j].error, ts[j])))

\* the text of the origin holds no U+0000
OriginNulFree == \A i \in 1..Len(origin.input) : origin.input[i] # NUL

C7_ListAcceptedIffQueryList ==
    (calls = 1 /\ origin.pos = 0) =>
        /\ origin.mode = "std" => result.kind = "ok"
        /\ OutsideGrammar(origin.q, origin.mode) => result.kind = "err"

\* the error of a damaged item, by the place the item has in the grammar: where
\* a list expects ',' or ')' the misfit is taken for the start of a query
PlaceError(role) ==
    CASE role = "lparen" -> "ExpectedLparen"
      [] role = "ident" -> "ExpectedIdentifierToken"
      [] role = "comma" -> "ExpectedComma"
      [] role = "value" -> "ExpectedValueToken"
      [] role = "rparen" -> "ExpectedRparen"
      [] role \in {"query", "sep", "close"} -> "ExpectedFilterToken"

PeekErrors == {"ExpectedLparen", "ExpectedComma", "ExpectedRparen"}

\* C8: a failure at any depth is what the outermost parse_query returns (same
\* variant, same token) with no Query; after the failing check no token is taken
\* from the lexer (cur_token and peek_token are those of the mismatch); and
\* errors() is empty in every state.
C8_FailFast ==
    /\ parser.errors = <<>>
    /\ (calls >= 1 /\ result.kind = "err") =>
          /\ result.x = <<>>
          /\ result.e.variant \in PeekErrors => result.e.token = parser.peek_token
          /\ result.e.variant \in {"ExpectedFilterToken", "ExpectedIdentifierToken",
                                   "ExpectedValueToken"}
                => result.e.token = parser.cur_token
          /\ result.e.variant \in {"ParseInt", "ParseFloat"}
                => result.e.text = parser.cur_token.literal
    /\ (calls = 1 /\ origin.pos > 0) =>
          LET role == Render(origin.q, "std")[origin.pos].role
              seen == IF origin.bad = "#" THEN Illegal ELSE Eof
              taken == IF PlaceError(role) \in PeekErrors
                       THEN origin.pos ELSE origin.pos + 1
          IN /\ result = Returned(Err(parser, ParserError(PlaceError(role), seen)))
             /\ parser.lexer = AfterCalls(LexerNew(origin.input), taken)

\* a missing ',' in a filter two levels down came out of the outermost call
C8_Witness ==
    /\ calls = 1 /\ origin.pos > 0
    /\ origin.q[1] = "And" /\ Len(origin.q[2]) = 1 /\ origin.q[2][1][1] = "Or"
    /\ result.kind = "err" /\ result.e.variant = "ExpectedComma"
    /\ result.e.token = Illegal

(***************************************************************************)
(* C12: where a successful parse function leaves the cursor (SpecSub)      *)
(***************************************************************************)
\* the tokens of the whole text, and Eof beyond
SubTokens == LexTokens(LexerNew(origin.input), Len(origin.input) + 3)

RECURSIVE CloseOf(_, _, _)
\* the place of the ')' that closes the '(' at k - depth being the parentheses
\* open before k
CloseOf(ts, k, depth) ==
    IF k > Len(ts) THEN k
    ELSE IF ts[k] = Lparen THEN CloseOf(ts, k + 1, depth + 1)
    ELSE IF ts[k] = Rparen
         THEN IF depth = 1 THEN k ELSE CloseOf(ts, k + 1, depth - 1)
         ELSE CloseOf(ts, k + 1, depth)

LiteralParsers ==
    {"parse_identifier", "parse_integer_literal", "parse_float_literal",
     "parse_string_literal", "parse_boolean"}

\* the place of the last token of the construct fn has parsed from place i
LastTokenOf(fn, ts, i) ==
    CASE fn \in LiteralParsers -> i
      [] fn \in {"parse_and", "parse_or"} -> CloseOf(ts, i + 1, 0)
      [] fn = "parse_filter" -> i + 5
      [] fn = "parse_query" ->
            IF ts[i].type \in {"And", "Or"} THEN CloseOf(ts, i + 1, 0) ELSE i + 5

\* cur_token and peek_token are the tokens at places i and i + 1
CursorAt(i) ==
    /\ i + 1 <= Len(SubTokens)
    /\ parser.cur_token = SubTokens[i]
    /\ parser.peek_token = SubTokens[i + 1]

Succeeded == sub.fn # "-" /\ result.kind = "ok"

\* C12 as written: after every successful parse function, the literal parsers
\* included, cur_token is the token right after the last token of the construct
\* and peek_token the one after that.
C12_CursorPastEveryConstruct ==
    Succeeded => CursorAt(LastTokenOf(sub.fn, SubTokens, sub.at + 1) + 1)

\* C12 as amended: after a successful parse_query, parse_and, parse_or or
\* parse_filter cur_token is the token right after the last token of the
\* construct and peek_token the one after that; a successful literal parser
\* leaves the cursor where it was: cur_token is still the literal's token, and
\* peek_token the token after it.
C12_CursorPastQueryOnLiteral ==
    Succeeded =>
        IF sub.fn \in LiteralParsers
        THEN /\ CursorAt(sub.at + 1)
             /\ parser.lexer = AfterCalls(LexerNew(origin.input), sub.at + 2)
        ELSE CursorAt(LastTokenOf(sub.fn, SubTokens, sub.at + 1) + 1)

\* an or(...) inside an and(...) has been parsed by parse_or
C12_Witness ==
    /\ Succeeded /\ sub.fn = "parse_or" /\ sub.at = 2
    /\ Len(result.x[2]) = 1
    /\ parser.cur_token = Rparen /\ parser.peek_token = Eof

(***************************************************************************)
(* C11: an Int token in value position (SpecSub)                           *)
(***************************************************************************)
\* cmp_op ( identifier , Int: the cursor is on an Int token, and the four
\* tokens before it open a filter
IntInValuePosition(i) ==
    /\ i >= 5 /\ i <= Len(SubTokens)
    /\ \A j \in 1..4 : SubTokens[i - 5 + j].type \in FilterPlaces[j].fits
    /\ SubTokens[i].type = "Int"

\* the decimal numeral d, leading zeros aside, denotes at most 2^63 - 1
AtMostI64Max(d) ==
    LET n == StripLeadingZeros(d)
    IN \/ Len(n) < Len(I64Max)
       \/ /\ Len(n) = Len(I64Max)
          /\ \A i \in 1..Len(n) :
                DigitValue(n[i]) > DigitValue(I64Max[i])
                    => \E j \in 1..(i - 1) : DigitValue(n[j]) < DigitValue(I64Max[j])

\* what the conversion of the Int text d is to give
Converted(d) ==
    IF AtMostI64Max(d)
    THEN [kind |-> "ok", x |-> IntegerLiteral(StripLeadingZeros(d)), e |-> NoError]
    ELSE [kind |-> "err", x |-> <<>>, e |-> ParserErrorText("ParseInt", d)]

\* C11: an Int token with digit text d in value position gives
\* IntegerLiteral(value of d) when d is at most 2^63 - 1, and ParseInt(d) with d
\* unchanged when it is larger: no wrap-around, no truncation, and the filter
\* around an out-of-range number fails with that ParseInt, not with an
\* Expected* error.
C11_IntConvertsOrParseInt ==
    /\ (sub.fn = "parse_integer_literal" /\ IntInValuePosition(sub.at + 1)) =>
          LET d == SubTokens[sub.at + 1].literal
          IN /\ AllDigits(d) /\ d # <<>>
             /\ \A v \in ValueCases :
                   (v.type = "Int" /\ v.lex = d) =>
                       /\ AtMostI64Max(d) = v.fits
                       /\ v.fits => Converted(d).x = v.val
             /\ result = Converted(d)
    /\ (sub.fn \in {"parse_filter", "parse_query"} /\ IntInValuePosition(sub.at + 5)) =>
          LET d == SubTokens[sub.at + 5].literal
          IN IF AtMostI64Max(d)
             THEN result.kind = "ok" => result.x[4] = Converted(d).x
             ELSE result = Converted(d)

\* the 18446744073709551623 of eq(a,18446744073709551623) has failed with
\* ParseInt of these 20 digits
C11_Witness ==
    /\ sub.fn = "parse_integer_literal" /\ IntInValuePosition(sub.at + 1)
    /\ SubTokens[sub.at + 1].literal = TwoTo64Plus7
    /\ result.kind = "err" /\ result.e.variant = "ParseInt"
    /\ result.e.text = TwoTo64Plus7

(***************************************************************************)
(* C13: the lexer reaches Eof and stays there (SpecLexer)                  *)
(***************************************************************************)
\* the characters l has not yet turned into a token: the one it is at, unless
\* that is U+0000, and those its iterator still holds
Unread(l) == (Len(l.input) + 1 - l.chars) + (IF l.ch = NUL THEN 0 ELSE 1)

\* one call of next_token, as C13 has it: it returns a token; a token other
\* than Eof costs at least one character, so that Eof has come by the time
\* there have been more calls than characters; and after Eof comes Eof
EofReachedAndKept ==
    /\ tok' # NoToken
    /\ tok' # Eof => Unread(lexer') < Unread(lexer)
    /\ lexcalls' > Len(lexer.input) => tok' = Eof
    /\ tok = Eof => tok' = Eof

\* C13: on every finite input, U+0000 included, repeated calls of next_token
\* return Eof after finitely many calls, every call that returns another token
\* consuming at least one character; once a call has returned Eof, every later
\* call returns Eof.
C13_EofIsReachedAndStays == [][EofReachedAndKept]_vars

(***************************************************************************)
(* C14: what follows the first complete query (SpecTail)                   *)
(***************************************************************************)
\* parse_query on the text without what was put after it
OfBase == parse_query(new_from_string(origin.base))

\* C14: when the tokens T parse to the tree Q, T followed by any further tokens
\* (an extra ')', a second query, Illegal tokens) parses to the same Q:
\* parse_query does not look for Eof after the query (the cursor is left on the
\* first of the further tokens) and does not report them.
C14_LeftoverTokensAreIgnored ==
    (calls = 1 /\ OfBase.kind = "ok") =>
        /\ result = [kind |-> "ok", x |-> OfBase.x, e |-> NoError]
        /\ parser.errors = <<>>
        /\ origin.tail # <<>> =>
              parser.cur_token = new_from_string(Concat(origin.tail)).cur_token

\* the text put after the query holds no U+0000
TailNulFree == \A i \in 1..Len(origin.tail) : origin.tail[i] # <<NUL>>

====
